---- MODULE Spec2Model ----
(***************************************************************************)
(* Model of src/src/poker.rs: card and hand parsing (Card::from_code,      *)
(* Hand::from_str), the rank/suit analysis of a five-card hand, the        *)
(* classification Hand::score and the comparison Hand::cmp.                *)
(*                                                                         *)
(* Rust indices are kept: a Hand is a function on 0..4 (the fields zero,   *)
(* one, two, three, four read through Index<u8>); a Vec is a sequence, so  *)
(* the Rust element v[i] is the TLA+ element v[i + 1].  Option<T> is a     *)
(* sequence of length at most one: None is << >> and Some(x) is << x >>.   *)
(***************************************************************************)
EXTENDS Integers, Sequences, FiniteSets, TLC

VARIABLES pc,         \* which step of the running operation comes next
          code,       \* Card::from_code: the argument
          card,       \* Card::from_code: the returned Option<Card>
          s,          \* Hand::from_str: the characters of s read so far
          n,          \* Hand::from_str: local n
          cards_str,  \* Hand::from_str: local cards_str
          cards,      \* Hand::from_str: local cards, [Option<Card>; 5]
          ret,        \* Hand::from_str: how the call ended
          hand0,      \* the hand as dealt, before its slots are rearranged
          hand,       \* the hand the operations are applied to
          other,      \* the hand `hand` is compared with
          third,      \* a third hand, for chains of comparisons
          out         \* what the last operation returned

vars == <<pc, code, card, s, n, cards_str, cards, ret, hand0, hand, other, third, out>>

----------------------------------------------------------------------------
(* Option<T> *)

None == << >>

Some(x) == << x >>

----------------------------------------------------------------------------
(* enum Suit, enum Rank, enum Category.  The derived orders of Rank and    *)
(* Category are the orders of declaration, modelled by the integers.       *)

Hearts == "Hearts"
Diamonds == "Diamonds"
Clubs == "Clubs"
Spades == "Spades"

Suit == {Hearts, Diamonds, Clubs, Spades}

One == 1
Two == 2
Three == 3
Four == 4
Five == 5
Six == 6
Seven == 7
Eight == 8
Nine == 9
Ten == 10
Jack == 11
Queen == 12
King == 13
Ace == 14

Rank == {One, Two, Three, Four, Five, Six, Seven, Eight, Nine, Ten, Jack, Queen, King, Ace}

HighCard == 0
OnePair == 1
TwoPairs == 2
ThreeOfAKind == 3
Straight == 4
Flush == 5
FullHouse == 6
FourOfAKind == 7
StraightFlush == 8
RoyalFlush == 9

Category == {HighCard, OnePair, TwoPairs, ThreeOfAKind, Straight, Flush, FullHouse, FourOfAKind, StraightFlush, RoyalFlush}

Card == [rank : Rank, suit : Suit]

\* Rank::next: the match of lines 36-51, Ace having no successor.
next(r) ==
  CASE r = One   -> Some(Two)
    [] r = Two   -> Some(Three)
    [] r = Three -> Some(Four)
    [] r = Four  -> Some(Five)
    [] r = Five  -> Some(Six)
    [] r = Six   -> Some(Seven)
    [] r = Seven -> Some(Eight)
    [] r = Eight -> Some(Nine)
    [] r = Nine  -> Some(Ten)
    [] r = Ten   -> Some(Jack)
    [] r = Jack  -> Some(Queen)
    [] r = Queen -> Some(King)
    [] r = King  -> Some(Ace)
    [] r = Ace   -> None

----------------------------------------------------------------------------
(* Card::from_code.  A &str is a sequence of characters; a character is a  *)
(* one-character string, except WideChar, which stands for a character     *)
(* whose UTF-8 encoding takes two bytes.                                    *)

WideChar == "U+00E9"

\* the first match of Card::from_code, on chars.next()
rank_of_char(ch) ==
  CASE ch = "1" -> Some(One)
    [] ch = "2" -> Some(Two)
    [] ch = "3" -> Some(Three)
    [] ch = "4" -> Some(Four)
    [] ch = "5" -> Some(Five)
    [] ch = "6" -> Some(Six)
    [] ch = "7" -> Some(Seven)
    [] ch = "8" -> Some(Eight)
    [] ch = "9" -> Some(Nine)
    [] ch = "T" -> Some(Ten)
    [] ch = "J" -> Some(Jack)
    [] ch = "Q" -> Some(Queen)
    [] ch = "K" -> Some(King)
    [] ch = "A" -> Some(Ace)
    [] OTHER    -> None

\* the second match of Card::from_code, on chars.next()
suit_of_char(ch) ==
  CASE ch = "H" -> Some(Hearts)
    [] ch = "D" -> Some(Diamonds)
    [] ch = "C" -> Some(Clubs)
    [] ch = "S" -> Some(Spades)
    [] OTHER    -> None

\* Card::from_code: the first two characters decide; chars is never asked
\* for a third one.
from_code(cd) ==
  LET r  == IF Len(cd) >= 1 THEN rank_of_char(cd[1]) ELSE None
      su == IF Len(cd) >= 2 THEN suit_of_char(cd[2]) ELSE None
  IN  IF r = None THEN None
      ELSE IF su = None THEN None
      ELSE Some([rank |-> r[1], suit |-> su[1]])

----------------------------------------------------------------------------
(* Hand: the analysis primitives *)

\* Hand::ranks
ranks(h) == << h[0].rank, h[1].rank, h[2].rank, h[3].rank, h[4].rank >>

\* Vec::sort on a vector of ranks (ascending, by insertion)
RECURSIVE insert(_, _)
insert(v, x) ==
  IF v = << >> THEN << x >>
  ELSE IF x < Head(v) THEN << x >> \o v
  ELSE << Head(v) >> \o insert(Tail(v), x)

RECURSIVE sort(_)
sort(v) == IF v = << >> THEN << >> ELSE insert(sort(Tail(v)), Head(v))

\* Hand::high_rank: the loop for i in 1..5
RECURSIVE high_rank_loop(_, _, _)
high_rank_loop(h, i, highest) ==
  IF i >= 5 THEN highest
  ELSE high_rank_loop(h, i + 1, IF h[i].rank > highest THEN h[i].rank ELSE highest)

high_rank(h) == high_rank_loop(h, 1, h[0].rank)

\* Hand::contains_rank
contains_rank(h, r) ==
  IF h[0].rank = r THEN TRUE
  ELSE IF h[1].rank = r THEN TRUE
  ELSE IF h[2].rank = r THEN TRUE
  ELSE IF h[3].rank = r THEN TRUE
  ELSE IF h[4].rank = r THEN TRUE
  ELSE FALSE

\* Hand::rank_counts: the loop for i in 1..5 over the sorted ranks, then the
\* last push
RECURSIVE rank_counts_loop(_, _, _, _)
rank_counts_loop(rs, i, counts, counter) ==
  IF i >= 5 THEN Append(counts, counter)
  ELSE IF rs[i + 1] = rs[i]
       THEN rank_counts_loop(rs, i + 1, counts, counter + 1)
       ELSE rank_counts_loop(rs, i + 1, Append(counts, counter), 1)

rank_counts(h) == rank_counts_loop(sort(ranks(h)), 1, << >>, 1)

\* x_inner keeping the first rank that reaches x instead of the highest
RECURSIVE x_inner_first(_, _, _, _, _, _)
x_inner_first(h, x, i, j, counter, rank) ==
  IF j >= 5 THEN rank
  ELSE IF h[j].rank = h[i].rank
       THEN LET c1 == counter + 1
                r1 == IF c1 >= x /\ rank = None THEN Some(h[i].rank) ELSE rank
            IN  x_inner_first(h, x, i, j + 1, c1, r1)
       ELSE x_inner_first(h, x, i, j + 1, counter, rank)

\* Hand::x_of_a_kind: the inner loop for j in i..5
RECURSIVE x_inner(_, _, _, _, _, _)
x_inner(h, x, i, j, counter, rank) ==
  IF j >= 5 THEN rank
  ELSE IF h[j].rank = h[i].rank
       THEN LET c1 == counter + 1
                r1 == IF c1 >= x
                      THEN IF rank = None THEN Some(h[i].rank)
                           ELSE IF rank[1] < h[i].rank THEN Some(h[i].rank)
                           ELSE rank
                      ELSE rank
            IN  x_inner(h, x, i, j + 1, c1, r1)
       ELSE x_inner(h, x, i, j + 1, counter, rank)

\* Hand::x_of_a_kind: the outer loop for i in 0..5
RECURSIVE x_outer(_, _, _, _)
x_outer(h, x, i, rank) ==
  IF i >= 5 THEN rank
  ELSE x_outer(h, x, i + 1, x_inner(h, x, i, i, 0, rank))

x_of_a_kind(h, x) == x_outer(h, x, 0, None)

is_x_of_a_kind(h, x) == x_of_a_kind(h, x) # None

\* Hand::is_straight: the first loop, the lowest rank of the hand
RECURSIVE lowest_loop(_, _, _)
lowest_loop(h, i, lowest) ==
  IF i >= 5 THEN lowest
  ELSE lowest_loop(h, i + 1, IF h[i].rank < lowest THEN h[i].rank ELSE lowest)

\* Hand::is_straight: the second loop, for _ in 1..5
RECURSIVE required_loop(_, _, _)
required_loop(h, k, required) ==
  IF k >= 5 THEN TRUE
  ELSE LET nx == next(required)
       IN  IF nx = None THEN FALSE
           ELSE IF ~ contains_rank(h, nx[1]) THEN FALSE
           ELSE required_loop(h, k + 1, nx[1])

\* is_straight asking for three successors only
is_straight_short(h) == required_loop(h, 2, lowest_loop(h, 1, h[0].rank))

is_straight(h) == required_loop(h, 1, lowest_loop(h, 1, h[0].rank))

\* Hand::straight
straight(h) == IF is_straight(h) THEN Some(high_rank(h)) ELSE None

\* Hand::flush: the loop for i in 0..5 against self[0].suit
RECURSIVE flush_loop(_, _)
flush_loop(h, i) ==
  IF i >= 5 THEN Some(high_rank(h))
  ELSE IF h[i].suit # h[0].suit THEN None
  ELSE flush_loop(h, i + 1)

\* flush with the loop for i in 0..4, the last slot never looked at
flush_skip_last(h) ==
  IF \E i \in 0..3 : h[i].suit # h[0].suit THEN None ELSE Some(high_rank(h))

flush(h) == flush_loop(h, 0)

is_flush(h) == flush(h) # None

\* Hand::two_pair
two_pair(h) ==
  IF rank_counts(h) \in {<<1, 2, 2>>, <<2, 1, 2>>, <<2, 2, 1>>}
  THEN x_of_a_kind(h, 2)
  ELSE None

is_two_pair(h) == two_pair(h) # None

\* Hand::straight_flush
straight_flush(h) ==
  IF is_flush(h) /\ is_straight(h) THEN Some(high_rank(h)) ELSE None

is_straight_flush(h) == straight_flush(h) # None

\* Hand::is_royal_flush
is_royal_flush(h) == straight_flush(h) = Some(Ace)

\* full_house returning the highest rank held twice
full_house_pair(h) ==
  IF rank_counts(h) \in {<<3, 2>>, <<2, 3>>}
  THEN x_of_a_kind(h, 2)
  ELSE None

\* Hand::full_house
full_house(h) ==
  IF rank_counts(h) \in {<<3, 2>>, <<2, 3>>}
  THEN x_of_a_kind(h, 3)
  ELSE None

is_full_house(h) == full_house(h) # None

\* score asking for one pair before it asks for two
score_pair_first(h) ==
  IF is_royal_flush(h) THEN <<RoyalFlush, Ace>>
  ELSE IF straight_flush(h) # None THEN <<StraightFlush, straight_flush(h)[1]>>
  ELSE IF x_of_a_kind(h, 4) # None THEN <<FourOfAKind, x_of_a_kind(h, 4)[1]>>
  ELSE IF full_house(h) # None THEN <<FullHouse, full_house(h)[1]>>
  ELSE IF flush(h) # None THEN <<Flush, flush(h)[1]>>
  ELSE IF straight(h) # None THEN <<Straight, straight(h)[1]>>
  ELSE IF x_of_a_kind(h, 3) # None THEN <<ThreeOfAKind, x_of_a_kind(h, 3)[1]>>
  ELSE IF x_of_a_kind(h, 2) # None THEN <<OnePair, x_of_a_kind(h, 2)[1]>>
  ELSE IF two_pair(h) # None THEN <<TwoPairs, two_pair(h)[1]>>
  ELSE <<HighCard, high_rank(h)>>

\* Hand::score: the first detector that answers, strongest first
score(h) ==
  IF is_royal_flush(h) THEN <<RoyalFlush, Ace>>
  ELSE IF straight_flush(h) # None THEN <<StraightFlush, straight_flush(h)[1]>>
  ELSE IF x_of_a_kind(h, 4) # None THEN <<FourOfAKind, x_of_a_kind(h, 4)[1]>>
  ELSE IF full_house(h) # None THEN <<FullHouse, full_house(h)[1]>>
  ELSE IF flush(h) # None THEN <<Flush, flush(h)[1]>>
  ELSE IF straight(h) # None THEN <<Straight, straight(h)[1]>>
  ELSE IF x_of_a_kind(h, 3) # None THEN <<ThreeOfAKind, x_of_a_kind(h, 3)[1]>>
  ELSE IF two_pair(h) # None THEN <<TwoPairs, two_pair(h)[1]>>
  ELSE IF x_of_a_kind(h, 2) # None THEN <<OnePair, x_of_a_kind(h, 2)[1]>>
  ELSE <<HighCard, high_rank(h)>>

\* Hand::cmp, lines 197-207: the sorted ranks compared from index 4 down
RECURSIVE kicker_loop(_, _, _)
kicker_loop(rs, other_rs, i) ==
  IF i < 0 THEN "Equal"
  ELSE IF rs[i + 1] > other_rs[i + 1] THEN "Greater"
  ELSE IF rs[i + 1] < other_rs[i + 1] THEN "Less"
  ELSE kicker_loop(rs, other_rs, i - 1)

kickers(h, g) == kicker_loop(sort(ranks(h)), sort(ranks(g)), 4)

\* cmp without the line returning Less on the lower defining rank
cmp_no_less(h, g) ==
  LET sc  == score(h)
      sco == score(g)
  IN  IF sc[1] > sco[1] THEN "Greater"
      ELSE IF sc[1] < sco[1] THEN "Less"
      ELSE IF sc[2] > sco[2] THEN "Greater"
      ELSE kickers(h, g)

\* Hand::cmp
cmp(h, g) ==
  LET sc  == score(h)
      sco == score(g)
  IN  IF sc[1] > sco[1] THEN "Greater"
      ELSE IF sc[1] < sco[1] THEN "Less"
      ELSE IF sc[2] > sco[2] THEN "Greater"
      ELSE IF sc[2] < sco[2] THEN "Less"
      ELSE kickers(h, g)

----------------------------------------------------------------------------
(* Hand::from_str and Hand::from_cards *)

\* char::is_whitespace, on the characters the inputs are drawn from
is_whitespace(ch) == ch \in {" ", "\t"}

\* String::len: the length in bytes of the UTF-8 encoding
RECURSIVE len(_)
len(str) ==
  IF str = << >> THEN 0
  ELSE (IF Head(str) = WideChar THEN 2 ELSE 1) + len(Tail(str))

\* Hand::from_cards: each of the five unwrap calls panics on a None
from_cards_panics(cs) == \E i \in 0..4 : cs[i] = None

from_cards(cs) == [i \in 0..4 |-> cs[i][1]]

----------------------------------------------------------------------------
(* The calls.  Each specification below runs one operation on inputs drawn *)
(* from a bounded set; the variables it does not use keep their initial    *)
(* value.                                                                  *)

Idle == << >>

NoCards == [i \in 0..4 |-> None]

\* the longest argument of Card::from_code
MaxCodeLen == 3

\* the longest argument of Hand::from_str
MaxLen == 15

CodeChars ==
  {"1", "2", "3", "4", "5", "6", "7", "8", "9", "T", "J", "Q", "K", "A",
   "H", "D", "C", "S", "X", " ", WideChar}

StrChars == {"2", "A", "H", " "}

InitCard ==
  /\ pc = "from_code"
  /\ code \in UNION {[1..k -> CodeChars] : k \in 0..MaxCodeLen}
  /\ card = None
  /\ s = << >> /\ n = 0 /\ cards_str = << >> /\ cards = NoCards /\ ret = None
  /\ hand0 = Idle /\ hand = Idle /\ other = Idle /\ third = Idle /\ out = Idle

\* a call of Card::from_code(code)
CardFromCode ==
  /\ pc = "from_code"
  /\ card' = from_code(code)
  /\ pc' = "card_returned"
  /\ UNCHANGED <<code, s, n, cards_str, cards, ret, hand0, hand, other, third, out>>

NextCard == CardFromCode

SpecCard == InitCard /\ [][NextCard]_vars

InitStr ==
  /\ pc = "loop"
  /\ s = << >> /\ n = 0 /\ cards_str = << >> /\ cards = NoCards /\ ret = None
  /\ code = << >> /\ card = None
  /\ hand0 = Idle /\ hand = Idle /\ other = Idle /\ third = Idle /\ out = Idle

\* One iteration of the loop of Hand::from_str, on the next character c of
\* the argument.  A return inside the loop leaves the rest of the argument
\* unread: s then holds the argument up to and including c.
FromStrChar(c) ==
  /\ pc = "loop"
  /\ Len(s) < MaxLen
  /\ s' = Append(s, c)
  /\ IF n > 4
     THEN /\ ret' = None /\ pc' = "returned"
          /\ UNCHANGED <<n, cards_str, cards>>
     ELSE IF is_whitespace(c)
     THEN UNCHANGED <<n, cards_str, cards, ret, pc>>
     ELSE LET pushed == Append(cards_str, c)
          IN  IF len(pushed) = 2
              THEN IF from_code(pushed) = None
                   THEN /\ ret' = None /\ pc' = "returned"
                        /\ cards' = [cards EXCEPT ![n] = from_code(pushed)]
                        /\ cards_str' = pushed
                        /\ UNCHANGED n
                   ELSE /\ cards' = [cards EXCEPT ![n] = from_code(pushed)]
                        /\ n' = n + 1
                        /\ cards_str' = << >>
                        /\ UNCHANGED <<ret, pc>>
              ELSE /\ cards_str' = pushed
                   /\ UNCHANGED <<n, cards, ret, pc>>
  /\ UNCHANGED <<code, card, hand0, hand, other, third, out>>

\* The argument ends: the loop is left and Some(Hand::from_cards(cards)) is
\* evaluated.
FromStrEnd ==
  /\ pc = "loop"
  /\ IF from_cards_panics(cards)
     THEN /\ pc' = "panicked" /\ UNCHANGED ret
     ELSE /\ pc' = "returned" /\ ret' = Some(from_cards(cards))
  /\ UNCHANGED <<s, n, cards_str, cards, code, card, hand0, hand, other, third, out>>

NextStr == (\E c \in StrChars : FromStrChar(c)) \/ FromStrEnd

SpecStr == InitStr /\ [][NextStr]_vars

----------------------------------------------------------------------------
(* Parsing: what the claims speak of *)

RankChars == {"1", "2", "3", "4", "5", "6", "7", "8", "9", "T", "J", "Q", "K", "A"}

SuitChars == {"H", "D", "C", "S"}

\* a code of exactly two characters, a rank symbol and a suit symbol
ValidCode(cd) == Len(cd) = 2 /\ cd[1] \in RankChars /\ cd[2] \in SuitChars

\* the maximal runs of characters of str that are not whitespace
RECURSIVE Runs(_, _, _)
Runs(str, run, acc) ==
  IF str = << >> THEN (IF run = << >> THEN acc ELSE Append(acc, run))
  ELSE IF is_whitespace(Head(str))
       THEN Runs(Tail(str), << >>, IF run = << >> THEN acc ELSE Append(acc, run))
       ELSE Runs(Tail(str), Append(run, Head(str)), acc)

\* five valid codes with whitespace between them, before and after
WellFormed(str) ==
  LET ts == Runs(str, << >>, << >>)
  IN  Len(ts) = 5 /\ \A k \in 1..5 : ValidCode(ts[k])

\* the card tokens of str: its characters other than whitespace, two at a
\* time, the last token being a single character when their number is odd
NonWs(str) == SelectSeq(str, LAMBDA ch : ~ is_whitespace(ch))

NumTokens(str) == (Len(NonWs(str)) + 1) \div 2

Token(str, k) ==
  LET q == NonWs(str)
  IN  IF 2 * k <= Len(q) THEN << q[2 * k - 1], q[2 * k] >> ELSE << q[2 * k - 1] >>

\* slot i holds the card of the i-th token
HoldsTokens(h, str) ==
  \A i \in 0..4 :
    /\ Some(h[i].rank) = rank_of_char(Token(str, i + 1)[1])
    /\ Some(h[i].suit) = suit_of_char(Token(str, i + 1)[2])

\* C3: from_str succeeds on five valid codes separated by whitespace, with
\* whitespace allowed before the first and after the last, and the hand holds
\* the cards in the order of the codes.
C3_FromStrAccepts ==
  (pc \in {"returned", "panicked"} /\ WellFormed(s))
  => (pc = "returned" /\ ret # None /\ HoldsTokens(ret[1], s))

\* C4: from_str returns None, and does not panic, when the number of card
\* tokens is not five or when one of the codes does not parse.
C4_FromStrRejects ==
  (/\ pc \in {"returned", "panicked"}
   /\ \/ NumTokens(s) # 5
      \/ \E k \in 1..NumTokens(s) : ~ ValidCode(Token(s, k)))
  => (pc = "returned" /\ ret = None)

\* C5: from_code returns a card for the codes of exactly two characters, a
\* rank symbol then a suit symbol, and None for every other argument.
C5_FromCodeStrict ==
  pc = "card_returned" => ((card # None) <=> ValidCode(code))

----------------------------------------------------------------------------
(* Hands to analyse.  A hand is dealt with its ranks in ascending slot     *)
(* order and one of a few suit patterns, and then has its slots            *)
(* rearranged, so that the operations see the ranks in several orders.     *)

\* the card written r su, as Card::from_code reads it
card_of(r, su) == from_code(<<r, su>>)[1]

\* Hand { zero: c0, one: c1, two: c2, three: c3, four: c4 }
hand_of(c0, c1, c2, c3, c4) ==
  [i \in 0..4 |-> CASE i = 0 -> c0 [] i = 1 -> c1 [] i = 2 -> c2 [] i = 3 -> c3 [] i = 4 -> c4]

SuitPatterns ==
  { [i \in 0..4 |-> Hearts],
    [i \in 0..4 |-> IF i = 0 THEN Clubs ELSE Hearts],
    [i \in 0..4 |-> IF i = 4 THEN Spades ELSE Hearts] }

SlotOrders ==
  { [i \in 0..4 |-> i],
    [i \in 0..4 |-> 4 - i],
    [i \in 0..4 |-> (i + 2) % 5],
    [i \in 0..4 |-> (2 * i + 2) % 5] }

rearranged(h, p) == [i \in 0..4 |-> h[p[i]]]

\* slots i and i + 1 exchanged
swapped(h, i) == [k \in 0..4 |-> IF k = i THEN h[i + 1] ELSE IF k = i + 1 THEN h[i] ELSE h[k]]

InitHand ==
  /\ pc = "dealt"
  /\ \E r0 \in Rank : \E r1 \in r0..Ace : \E r2 \in r1..Ace :
       \E r3 \in r2..Ace : \E r4 \in r3..Ace : \E su \in SuitPatterns :
         hand0 = [i \in 0..4 |->
                    [rank |-> <<r0, r1, r2, r3, r4>>[i + 1], suit |-> su[i]]]
  /\ \E p \in SlotOrders : hand = rearranged(hand0, p)
  /\ other = Idle /\ third = Idle /\ out = Idle
  /\ code = << >> /\ card = None
  /\ s = << >> /\ n = 0 /\ cards_str = << >> /\ cards = NoCards /\ ret = None

\* a call of hand.score()
Score ==
  /\ pc = "dealt"
  /\ out' = score(hand)
  /\ pc' = "scored"
  /\ UNCHANGED <<code, card, s, n, cards_str, cards, ret, hand0, hand, other, third>>

\* a call of hand.x_of_a_kind(x)
XOfAKind(x) ==
  /\ pc = "dealt"
  /\ out' = [x |-> x, rank |-> x_of_a_kind(hand, x)]
  /\ pc' = "counted"
  /\ UNCHANGED <<code, card, s, n, cards_str, cards, ret, hand0, hand, other, third>>

\* the calls hand.is_straight() and hand.straight()
IsStraight ==
  /\ pc = "dealt"
  /\ out' = [is_straight |-> is_straight(hand), straight |-> straight(hand)]
  /\ pc' = "run"
  /\ UNCHANGED <<code, card, s, n, cards_str, cards, ret, hand0, hand, other, third>>

NextHand == Score \/ (\E x \in 1..5 : XOfAKind(x)) \/ IsStraight

SpecHand == InitHand /\ [][NextHand]_vars

----------------------------------------------------------------------------
(* What the claims speak of, stated on the cards of a hand and not through *)
(* the operations above.                                                   *)

\* how many of the five cards have rank r
Mult(h, r) == Cardinality({i \in 0..4 : h[i].rank = r})

RanksIn(h) == {h[i].rank : i \in 0..4}

MaxOf(S) == CHOOSE m \in S : \A r \in S : r <= m

MinOf(S) == CHOOSE m \in S : \A r \in S : m <= r

\* the five ranks are lowest, its successor, ..., its fourth successor, none
\* of them past Ace
IsRun(h) ==
  LET lo == MinOf(RanksIn(h))
  IN  /\ lo + 4 <= Ace
      /\ RanksIn(h) = lo..(lo + 4)

\* whether the detector of category c answers on h
Detects(h, c) ==
  CASE c = RoyalFlush    -> is_royal_flush(h)
    [] c = StraightFlush -> is_straight_flush(h)
    [] c = FourOfAKind   -> is_x_of_a_kind(h, 4)
    [] c = FullHouse     -> is_full_house(h)
    [] c = Flush         -> is_flush(h)
    [] c = Straight      -> is_straight(h)
    [] c = ThreeOfAKind  -> is_x_of_a_kind(h, 3)
    [] c = TwoPairs      -> is_two_pair(h)
    [] c = OnePair       -> is_x_of_a_kind(h, 2)
    [] c = HighCard      -> TRUE

\* the rank that determines category c in h
DefiningRank(h, c) ==
  CASE c = FourOfAKind  -> MaxOf({r \in RanksIn(h) : Mult(h, r) >= 4})
    [] c = FullHouse    -> MaxOf({r \in RanksIn(h) : Mult(h, r) = 3})
    [] c = ThreeOfAKind -> MaxOf({r \in RanksIn(h) : Mult(h, r) = 3})
    [] c = TwoPairs     -> MaxOf({r \in RanksIn(h) : Mult(h, r) = 2})
    [] c = OnePair      -> MaxOf({r \in RanksIn(h) : Mult(h, r) = 2})
    [] OTHER            -> MaxOf(RanksIn(h))

\* C6: the category score returns is the strongest category whose detector
\* answers on the hand; no stronger category's detector answers.
C6_StrongestCategory ==
  pc = "scored" =>
    /\ out[1] \in Category
    /\ Detects(hand, out[1])
    /\ \A c \in Category : Detects(hand, c) => c <= out[1]

\* C6 witness: a hand all of one suit that also holds a repeated rank is
\* scored a Flush, not OnePair.
C6_Witness ==
  /\ pc = "scored"
  /\ out[1] = Flush
  /\ Detects(hand, OnePair)
  /\ hand[0].rank # hand[4].rank

\* C7: the rank score returns is the rank that determines the category: the
\* rank held four times, three times, the higher rank held twice, the rank
\* held twice, or else the highest rank of the hand.
C7_DefiningRank ==
  pc = "scored" => out[2] = DefiningRank(hand, out[1])

\* C7 witness: two pairs whose lower pair comes first in the slots; the
\* higher pair's rank is returned.
C7_Witness ==
  /\ pc = "scored"
  /\ out[1] = TwoPairs
  /\ hand[0].rank = Eight /\ hand[1].rank = Eight
  /\ hand[2].rank = Nine /\ hand[3].rank = Nine /\ hand[4].rank = King
  /\ out[2] = Nine

\* C8: is_straight answers exactly on the hands whose ranks are five
\* successive ranks ending at Ace or below, and straight then returns the
\* highest rank of the hand (and nothing otherwise).
C8_Straight ==
  pc = "run" =>
    /\ out.is_straight <=> IsRun(hand)
    /\ out.is_straight => out.straight = Some(MaxOf(RanksIn(hand)))
    /\ RanksIn(hand) = {Ten, Jack, Queen, King, Ace} => out.is_straight
    /\ RanksIn(hand) = {Ace, Two, Three, Four, Five} => ~ out.is_straight

\* C8 witness: Ten to Ace, not in ascending slot order, is a straight with
\* rank Ace.
C8_Witness ==
  /\ pc = "run"
  /\ RanksIn(hand) = {Ten, Jack, Queen, King, Ace}
  /\ hand[0].rank = Queen
  /\ out.is_straight
  /\ out.straight = Some(Ace)

\* C9: x_of_a_kind(x), for x in 1..5, returns the highest rank held by at
\* least x cards, and None exactly when no rank is held by x cards.
C9_XOfAKind ==
  pc = "counted" =>
    LET q == {r \in RanksIn(hand) : Mult(hand, r) >= out.x}
    IN  /\ out.x \in 1..5
        /\ (q = {}) <=> (out.rank = None)
        /\ q # {} => out.rank = Some(MaxOf(q))

\* C9 witness: two ranks are held twice, the lower one in the earlier slots;
\* the higher one is returned.
C9_Witness ==
  /\ pc = "counted"
  /\ out.x = 2
  /\ hand[0].rank = Three /\ hand[1].rank = Three
  /\ hand[3].rank = Jack /\ hand[4].rank = Jack
  /\ out.rank = Some(Jack)

----------------------------------------------------------------------------
(* Rearranging the slots of a hand *)

PermRanks == {Two, Ten, Jack, Queen, King, Ace}

\* hands to compare a rearranged hand with
Opponents ==
  { hand_of(card_of("T", "H"), card_of("J", "H"), card_of("Q", "H"), card_of("K", "H"), card_of("A", "H")),
    hand_of(card_of("2", "C"), card_of("2", "D"), card_of("T", "S"), card_of("T", "H"), card_of("K", "D")),
    hand_of(card_of("A", "D"), card_of("K", "H"), card_of("Q", "H"), card_of("J", "H"), card_of("2", "C")) }

InitPerm ==
  /\ pc = "dealt"
  /\ \E r0 \in PermRanks : \E r1 \in PermRanks : \E r2 \in PermRanks :
       \E r3 \in PermRanks : \E r4 \in PermRanks : \E su \in SuitPatterns :
         /\ r0 <= r1 /\ r1 <= r2 /\ r2 <= r3 /\ r3 <= r4
         /\ hand0 = [i \in 0..4 |->
                       [rank |-> <<r0, r1, r2, r3, r4>>[i + 1], suit |-> su[i]]]
  /\ hand = hand0
  /\ other = Idle /\ third = Idle /\ out = Idle
  /\ code = << >> /\ card = None
  /\ s = << >> /\ n = 0 /\ cards_str = << >> /\ cards = NoCards /\ ret = None

\* the cards of slots i and i + 1 change places
Permute(i) ==
  /\ pc = "dealt"
  /\ hand' = swapped(hand, i)
  /\ UNCHANGED <<pc, code, card, s, n, cards_str, cards, ret, hand0, other, third, out>>

\* a call of hand.cmp(g)
Compare(g) ==
  /\ pc = "dealt"
  /\ other' = g
  /\ out' = cmp(hand, g)
  /\ pc' = "compared"
  /\ UNCHANGED <<code, card, s, n, cards_str, cards, ret, hand0, hand, third>>

NextPerm == (\E i \in 0..3 : Permute(i)) \/ Score \/ (\E g \in Opponents : Compare(g))

SpecPerm == InitPerm /\ [][NextPerm]_vars

\* C10: score does not depend on the slots the cards are in: a hand with its
\* slots rearranged has the score of the hand as dealt, and compares with any
\* hand as the hand as dealt does.
C10_SlotOrder ==
  /\ pc = "scored" => out = score(hand0)
  /\ pc = "compared" => out = cmp(hand0, other)

\* C10 witness: a flush whose highest card has moved from the last slot to
\* the first is still scored a Flush of that rank.
C10_Witness ==
  /\ pc = "scored"
  /\ hand # hand0
  /\ hand[0] = hand0[4]
  /\ hand0[4].rank = Ace /\ hand0[3].rank # Ace
  /\ out = <<Flush, Ace>>

----------------------------------------------------------------------------
(* Comparing hands *)

CmpRanks == {Two, Three, Queen, King}

\* every choice of five ranks among CmpRanks, in the suits H D C S H
KickerHands ==
  { hand_of([rank |-> r0, suit |-> Hearts], [rank |-> r1, suit |-> Diamonds],
            [rank |-> r2, suit |-> Clubs], [rank |-> r3, suit |-> Spades],
            [rank |-> r4, suit |-> Hearts]) :
      <<r0, r1, r2, r3, r4>> \in
        {q \in CmpRanks \X CmpRanks \X CmpRanks \X CmpRanks \X CmpRanks :
           q[1] <= q[2] /\ q[2] <= q[3] /\ q[3] <= q[4] /\ q[4] <= q[5]} }

\* the hands of test_cmp and test_score
TestHands ==
  { hand_of(card_of("5", "H"), card_of("5", "C"), card_of("6", "S"), card_of("7", "S"), card_of("K", "D")),
    hand_of(card_of("2", "C"), card_of("3", "S"), card_of("8", "S"), card_of("8", "D"), card_of("T", "D")),
    hand_of(card_of("5", "D"), card_of("8", "C"), card_of("9", "S"), card_of("J", "S"), card_of("A", "C")),
    hand_of(card_of("2", "C"), card_of("5", "C"), card_of("7", "D"), card_of("8", "S"), card_of("Q", "H")),
    hand_of(card_of("2", "D"), card_of("9", "C"), card_of("A", "S"), card_of("A", "H"), card_of("A", "C")),
    hand_of(card_of("3", "D"), card_of("6", "D"), card_of("7", "D"), card_of("T", "D"), card_of("Q", "D")),
    hand_of(card_of("4", "D"), card_of("6", "S"), card_of("9", "H"), card_of("Q", "H"), card_of("Q", "C")),
    hand_of(card_of("3", "D"), card_of("6", "D"), card_of("7", "H"), card_of("Q", "D"), card_of("Q", "S")),
    hand_of(card_of("2", "H"), card_of("2", "D"), card_of("4", "C"), card_of("4", "D"), card_of("4", "S")),
    hand_of(card_of("3", "C"), card_of("3", "D"), card_of("3", "S"), card_of("9", "S"), card_of("9", "D")),
    hand_of(card_of("6", "D"), card_of("7", "C"), card_of("5", "D"), card_of("5", "H"), card_of("3", "S")),
    hand_of(card_of("5", "C"), card_of("J", "C"), card_of("2", "H"), card_of("5", "S"), card_of("3", "D")),
    hand_of(card_of("8", "C"), card_of("8", "S"), card_of("K", "C"), card_of("9", "H"), card_of("9", "S")),
    hand_of(card_of("7", "D"), card_of("2", "S"), card_of("5", "D"), card_of("3", "S"), card_of("A", "C")),
    hand_of(card_of("5", "C"), card_of("A", "C"), card_of("5", "C"), card_of("A", "C"), card_of("9", "C")) }

MoreHands ==
  { hand_of(card_of("K", "H"), card_of("K", "D"), card_of("3", "C"), card_of("3", "S"), card_of("Q", "H")),
    hand_of(card_of("K", "C"), card_of("K", "S"), card_of("4", "H"), card_of("4", "D"), card_of("2", "C")),
    hand_of(card_of("T", "H"), card_of("J", "H"), card_of("Q", "H"), card_of("K", "H"), card_of("A", "H")),
    hand_of(card_of("5", "S"), card_of("6", "S"), card_of("7", "S"), card_of("8", "S"), card_of("9", "S")),
    hand_of(card_of("4", "H"), card_of("5", "D"), card_of("7", "H"), card_of("3", "C"), card_of("6", "H")) }

CmpSample == KickerHands \cup TestHands \cup MoreHands

InitCmp ==
  /\ pc = "dealt"
  /\ hand \in CmpSample
  /\ hand0 = hand
  /\ other = Idle /\ third = Idle /\ out = Idle
  /\ code = << >> /\ card = None
  /\ s = << >> /\ n = 0 /\ cards_str = << >> /\ cards = NoCards /\ ret = None

NextCmp == \E g \in CmpSample : Compare(g)

SpecCmp == InitCmp /\ [][NextCmp]_vars

\* every choice of five ranks among Two, Three and King, in the suits
\* H D C S H, and hands of the other categories
OrderSample ==
  {h \in KickerHands : \A i \in 0..4 : h[i].rank # Queen}
    \cup { hand_of(card_of("5", "D"), card_of("8", "C"), card_of("9", "S"), card_of("J", "S"), card_of("A", "C")),
           hand_of(card_of("2", "C"), card_of("5", "C"), card_of("7", "D"), card_of("8", "S"), card_of("Q", "H")),
           hand_of(card_of("7", "D"), card_of("2", "S"), card_of("5", "D"), card_of("3", "S"), card_of("A", "C")),
           hand_of(card_of("3", "D"), card_of("6", "D"), card_of("7", "D"), card_of("T", "D"), card_of("Q", "D")),
           hand_of(card_of("4", "D"), card_of("6", "S"), card_of("9", "H"), card_of("Q", "H"), card_of("Q", "C")),
           hand_of(card_of("3", "D"), card_of("6", "D"), card_of("7", "H"), card_of("Q", "D"), card_of("Q", "S")),
           hand_of(card_of("T", "H"), card_of("J", "H"), card_of("Q", "H"), card_of("K", "H"), card_of("A", "H")),
           hand_of(card_of("5", "S"), card_of("6", "S"), card_of("7", "S"), card_of("8", "S"), card_of("9", "S")),
           hand_of(card_of("4", "H"), card_of("5", "D"), card_of("7", "H"), card_of("3", "C"), card_of("6", "H")) }

InitOrder ==
  /\ pc = "dealt"
  /\ hand \in OrderSample /\ other \in OrderSample /\ third \in OrderSample
  /\ hand0 = hand
  /\ out = Idle
  /\ code = << >> /\ card = None
  /\ s = << >> /\ n = 0 /\ cards_str = << >> /\ cards = NoCards /\ ret = None

\* the calls hand.cmp(other), other.cmp(hand), other.cmp(third) and
\* hand.cmp(third)
CompareAll ==
  /\ pc = "dealt"
  /\ out' = [ab |-> cmp(hand, other), ba |-> cmp(other, hand),
             bc |-> cmp(other, third), ac |-> cmp(hand, third)]
  /\ pc' = "compared"
  /\ UNCHANGED <<code, card, s, n, cards_str, cards, ret, hand0, hand, other, third>>

NextOrder == CompareAll

SpecOrder == InitOrder /\ [][NextOrder]_vars

GE == {"Greater", "Equal"}

\* C1: cmp(a, b) and cmp(b, a) are opposite or both Equal, and cmp is
\* transitive: a >= b and b >= c give a >= c, with Equal only when both are.
C1_TotalOrder ==
  pc = "compared" =>
    /\ out.ab \in {"Greater", "Less", "Equal"}
    /\ (out.ab = "Greater") <=> (out.ba = "Less")
    /\ (out.ab = "Less") <=> (out.ba = "Greater")
    /\ (out.ab = "Equal") <=> (out.ba = "Equal")
    /\ (out.ab \in GE /\ out.bc \in GE) =>
         /\ out.ac \in GE
         /\ out.ac = "Equal" => (out.ab = "Equal" /\ out.bc = "Equal")

\* C1 witness: three hands of one category and one defining rank, ordered by
\* their kickers alone.
C1_Witness ==
  /\ pc = "compared"
  /\ score(hand) = score(other) /\ score(other) = score(third)
  /\ out.ab = "Greater" /\ out.ba = "Less"
  /\ out.bc = "Greater" /\ out.ac = "Greater"

\* no card is held twice
RealHand(h) == \A i, j \in 0..4 : h[i] = h[j] => i = j

\* the ranks of S, the rank held most often first and, among ranks held
\* equally often, the higher first
RECURSIVE GroupSeq(_, _)
GroupSeq(h, S) ==
  IF S = {} THEN << >>
  ELSE LET top == CHOOSE r \in S : \A q \in S :
                    \/ Mult(h, q) < Mult(h, r)
                    \/ (Mult(h, q) = Mult(h, r) /\ q <= r)
       IN  << top >> \o GroupSeq(h, S \ {top})

\* two rank sequences compared position by position from the first
RECURSIVE LexCmp(_, _)
LexCmp(u, v) ==
  IF u = << >> \/ v = << >> THEN "Equal"
  ELSE IF Head(u) > Head(v) THEN "Greater"
  ELSE IF Head(u) < Head(v) THEN "Less"
  ELSE LexCmp(Tail(u), Tail(v))

\* the ten cards are ten different cards
Deal(h, g) == RealHand(h) /\ RealHand(g) /\ \A i, j \in 0..4 : h[i] # g[j]

\* the winner by the rules of poker between hands of one category
Standard(h, g) == LexCmp(GroupSeq(h, RanksIn(h)), GroupSeq(g, RanksIn(g)))

\* C2: between hands that tie on category and defining rank, the kicker step
\* of cmp names the winner the rules of poker name.
C2_KickersStandard ==
  (/\ pc = "compared"
   /\ Deal(hand, other)
   /\ score(hand) = score(other))
  => /\ out = kickers(hand, other)
     /\ out = Standard(hand, other)

====
